---- MODULE Spec2Model ----
(***************************************************************************)
(* A model of the CRIS network tool: the paginated publication fetcher     *)
(* (fetch_publications.py), the co-authorship graph builder                *)
(* (generate_edge_list / generate_node_list, mode 2 of main) and the       *)
(* detail-enrichment path (process_data.py).                               *)
(*                                                                         *)
(* Python values are represented as follows.  A dict is a function with a  *)
(* set of strings as its domain ({} is the empty function); a str that the *)
(* code splits, strips or compares is a sequence of one-character strings; *)
(* a list is a sequence; a pandas table is a sequence of rows.             *)
(***************************************************************************)
EXTENDS Integers, Sequences, FiniteSets, TLC

VARIABLES
    \* ---- fetch_all_publications (fetch_publications.py) ----
    fpc,              \* position of the call: "start", "loop", "returned", "raised"
    query,            \* the call's arguments [start_year, end_year, local_unit_id]
    page,             \* local variable page
    total_pages,      \* local variable total_pages
    all_publications, \* local variable all_publications (the accumulator / result)
    requests,         \* the params of every requests.get issued, in order
    responses,        \* what the source answered to each request, in order
    sleeps,           \* every time.sleep that ran, in order: [page, after, seconds]
    fexc,             \* the exception that left the call, "" when none
    \* ---- main, mode 2: generate_edge_list then generate_node_list ----
    gpc,              \* "start", "edges_done", "done", "failed"
    table,            \* the input CSV as pandas reads it: [columns, rows]
    edge_file,        \* the edge list written (sequence of rows), NotWritten before
    node_file,        \* the node list written (sequence of rows), NotWritten before
    gexc,             \* the exception that ended the run, "" when none
    \* ---- process_publications_csv (process_data.py) ----
    epc,              \* "start", "loop", "done", "failed"
    df,               \* the input dataframe rows [id, titleOfPublication, yearOfPublication]
    idx,              \* the loop index i over publication_ids
    detail_requests,  \* the publication ids requested, in order
    detail_results,   \* what fetch_publication_details returned for each, in order
    publication_authors,      \* dict pub id -> ';'-joined author ids
    publication_author_names, \* dict pub id -> ';'-joined author names
    updated_file,     \* the updated table written, NotWritten before
    edge_list_file,   \* the edge list written by create_edge_list, NotWritten before
    eexc              \* the exception that ended the run, "" when none

fvars == <<fpc, query, page, total_pages, all_publications, requests, responses, sleeps, fexc>>
gvars == <<gpc, table, edge_file, node_file, gexc>>
evars == <<epc, df, idx, detail_requests, detail_results, publication_authors,
           publication_author_names, updated_file, edge_list_file, eexc>>
vars == <<fvars, gvars, evars>>

(***************************************************************************)
(* Bounds of the model.                                                    *)
(***************************************************************************)
MaxPages == 3      \* largest pageCount the source reports
MaxRows == 2       \* most rows of a graph-builder input table
MaxDfRows == 2     \* most rows of an enrichment input table

(***************************************************************************)
(* Python helpers: dicts, lists, strings.                                  *)
(***************************************************************************)
EmptyDict == [k \in {} |-> k]

\* d.get(k, default)
Get(d, k, default) == IF k \in DOMAIN d THEN d[k] ELSE default

Range(s) == {s[i] : i \in DOMAIN s}

\* the concatenation of a sequence of sequences, in order
RECURSIVE Flatten(_)
Flatten(ss) == IF ss = <<>> THEN <<>> ELSE Head(ss) \o Flatten(Tail(ss))

\* the code point of a character, which is what Python compares strings by
Ord(c) ==
    CASE c = " " -> 32
      [] c = "," -> 44
      [] c = ";" -> 59
      [] c = "A" -> 65
      [] c = "B" -> 66
      [] c = "C" -> 67
      [] c = "X" -> 88
      [] c = "Y" -> 89

\* s < t for two str
RECURSIVE StrLess(_, _)
StrLess(s, t) ==
    IF t = <<>> THEN FALSE
    ELSE IF s = <<>> THEN TRUE
    ELSE IF Head(s) = Head(t) THEN StrLess(Tail(s), Tail(t))
    ELSE Ord(Head(s)) < Ord(Head(t))

\* s.split(sep): never empty, "" gives [""]
RECURSIVE SplitFrom(_, _, _)
SplitFrom(s, sep, cur) ==
    IF s = <<>> THEN <<cur>>
    ELSE IF Head(s) = sep THEN <<cur>> \o SplitFrom(Tail(s), sep, <<>>)
    ELSE SplitFrom(Tail(s), sep, Append(cur, Head(s)))

Split(s, sep) == SplitFrom(s, sep, <<>>)

RECURSIVE LStrip(_)
LStrip(s) == IF s # <<>> /\ Head(s) = " " THEN LStrip(Tail(s)) ELSE s

RECURSIVE RStrip(_)
RStrip(s) == IF s # <<>> /\ s[Len(s)] = " " THEN RStrip(SubSeq(s, 1, Len(s) - 1)) ELSE s

\* s.strip()
Strip(s) == RStrip(LStrip(s))

\* sep.join(parts)
RECURSIVE Join(_, _)
Join(parts, sep) ==
    IF parts = <<>> THEN <<>>
    ELSE IF Len(parts) = 1 THEN Head(parts)
    ELSE Head(parts) \o <<sep>> \o Join(Tail(parts), sep)

\* an output file: not written yet, or written with a table's rows
NotWritten == [written |-> FALSE, rows |-> <<>>]
Written(rows) == [written |-> TRUE, rows |-> rows]

(***************************************************************************)
(* The paginated fetcher.                                                  *)
(***************************************************************************)
\* UNIT_ID_TO_NAME, one of its entries
UNIT_ID_TO_NAME == [u \in {"88f6f7f1-e92b-4863-a485-848b130320a7"} |-> "School of Computing"]

\* the (start_year, end_year, local_unit_id) of the calls modelled
Queries ==
    { [start_year |-> "2020", end_year |-> "2023", local_unit_id |-> ""],
      [start_year |-> "2020", end_year |-> "2023",
       local_unit_id |-> "88f6f7f1-e92b-4863-a485-848b130320a7"],
      [start_year |-> "2025", end_year |-> "2025", local_unit_id |-> "no-such-unit"] }

\* raw publication objects of the source
PubFull1 ==
    [data |-> [titleOfPublication |-> [titleOfPublication |-> "T1"],
               authorsOfThePublication |-> [authors |-> "A;B"],
               detailedPublicationInformation |->
                   [yearOfPublication |-> [yearOfPublication |-> "2020"]]]]
PubFull2 ==
    [data |-> [titleOfPublication |-> [titleOfPublication |-> "T2"],
               authorsOfThePublication |-> [authors |-> "C"],
               detailedPublicationInformation |->
                   [yearOfPublication |-> [yearOfPublication |-> "2021"]]]]
\* data present, nothing in it
PubSparse == [data |-> EmptyDict]
\* detailedPublicationInformation present without yearOfPublication, no title
PubNoYear ==
    [data |-> [authorsOfThePublication |-> [authors |-> "A"],
               detailedPublicationInformation |-> EmptyDict]]
\* no "data" key at all
PubNoData == [id |-> "p9"]

RawPublications == {PubFull1, PubFull2, PubSparse, PubNoYear, PubNoData}

\* the "data" arrays a page may carry
PageBodies ==
    { <<>>,
      <<PubFull1, PubFull2>>,
      <<PubFull2>>,
      <<PubSparse, PubFull1>>,
      <<PubNoYear>>,
      <<PubFull1, PubNoData>> }

\* publication["data"] raises KeyError when the key is absent
RaisesKeyError(publication) == "data" \notin DOMAIN publication

filter_publication_data(publication, local_unit_id) ==
    [titleOfPublication |-> Get(publication.data, "titleOfPublication", EmptyDict),
     authorsOfThePublication |-> Get(publication.data, "authorsOfThePublication", EmptyDict),
     yearOfPublication |->
         Get(Get(publication.data, "detailedPublicationInformation", EmptyDict),
             "yearOfPublication", EmptyDict),
     localUnitId |-> local_unit_id,
     department |-> Get(UNIT_ID_TO_NAME, local_unit_id, "Unknown Department")]

\* [filter_publication_data(pub, local_unit_id) for pub in data.get("data", [])]
FilterRaises(json) == \E i \in DOMAIN Get(json, "data", <<>>) :
                          RaisesKeyError(Get(json, "data", <<>>)[i])
FilterAll(json, local_unit_id) ==
    [i \in DOMAIN Get(json, "data", <<>>) |->
        filter_publication_data(Get(json, "data", <<>>)[i], local_unit_id)]

\* limit = 100 of fetch_all_publications and "limit": 100 of fetch_publications
limit == 100
ParamLimit == 100

\* the params fetch_publications sends
Params(p, skip, q) ==
    [page |-> p, skip |-> skip, limit |-> ParamLimit,
     yearOfPublicationStart |-> q.start_year, yearOfPublicationEnd |-> q.end_year,
     localUnitIds |-> q.local_unit_id]

\* what the source may answer: a transport or status failure (requests.get or
\* raise_for_status raises a RequestException), or a JSON body
ErrorResponse == [status |-> "error"]
OkResponse(json) == [status |-> "ok", json |-> json]

\* bodies of a first page: meta.pageCount is 0..MaxPages, or meta is absent
FirstJsons ==
    { [data |-> b, meta |-> [pageCount |-> n]] : b \in PageBodies, n \in 0..MaxPages }
        \cup { [data |-> b] : b \in {<<PubFull1, PubFull2>>} }
        \cup { [meta |-> [pageCount |-> 1]] }
LaterJsons(n) == { [data |-> b, meta |-> [pageCount |-> n]] : b \in PageBodies }

FetchInit ==
    /\ fpc = "start"
    /\ query \in Queries
    /\ page = 1
    /\ total_pages = 0
    /\ all_publications = <<>>
    /\ requests = <<>>
    /\ responses = <<>>
    /\ sleeps = <<>>
    /\ fexc = ""

FetchIdle ==
    /\ fpc = "idle"
    /\ query = [start_year |-> "", end_year |-> "", local_unit_id |-> ""]
    /\ page = 1
    /\ total_pages = 0
    /\ all_publications = <<>>
    /\ requests = <<>>
    /\ responses = <<>>
    /\ sleeps = <<>>
    /\ fexc = ""

\* a faulty variant of Skip: the offset of the page after
Skip_OffByOne(p) == p * limit

\* skip = (page - 1) * limit
Skip(p) == (p - 1) * limit

\* a faulty variant of Extend: the filtered records are never added to the accumulator
Extend_Dropped(publications, json, local_unit_id) == publications

\* all_publications.extend([filter_publication_data(pub, ...) for pub in ...])
Extend(publications, json, local_unit_id) == publications \o FilterAll(json, local_unit_id)

\* a faulty variant of FirstFailure: the first request's failure is caught and an empty
\* list returned
FirstFailure_Swallowed ==
    /\ fpc' = "returned"
    /\ fexc' = ""
    /\ UNCHANGED <<total_pages, all_publications>>

\* the first request is outside any try: its RequestException leaves the call
FirstFailure ==
    /\ fpc' = "raised"
    /\ fexc' = "RequestException"
    /\ UNCHANGED <<total_pages, all_publications>>

\* the argument of time.sleep(1)
SleepSeconds == 1

\* a faulty variant of time_sleep: the loop never pauses
time_sleep_Skipped(slept, p, issued) == slept

\* time.sleep(1), the last statement of the try block: it runs after the request
\* for page p was answered and its records were added, when `issued` requests
\* have been sent
time_sleep(slept, p, issued) ==
    Append(slept, [page |-> p, after |-> issued, seconds |-> SleepSeconds])

\* a faulty variant of LaterFailure: continue instead of break
LaterFailure_Continue ==
    /\ fpc' = IF page' < total_pages THEN "loop" ELSE "returned"
    /\ fexc' = ""
    /\ UNCHANGED <<all_publications, sleeps>>

\* except requests.exceptions.RequestException: break, then return all_publications
LaterFailure ==
    /\ fpc' = "returned"
    /\ fexc' = ""
    /\ UNCHANGED <<all_publications, sleeps>>

\* lines 102-120: the first request and what follows it up to the loop
FirstPage(resp) ==
    /\ fpc = "start"
    /\ requests' = Append(requests, Params(1, 0, query))
    /\ responses' = Append(responses, resp)
    /\ IF resp.status = "error"
       THEN FirstFailure
       ELSE /\ total_pages' = Get(Get(resp.json, "meta", EmptyDict), "pageCount", 0)
            /\ IF FilterRaises(resp.json)
               THEN \* KeyError out of filter_publication_data leaves the call
                    /\ fpc' = "raised"
                    /\ fexc' = "KeyError"
                    /\ UNCHANGED all_publications
               ELSE /\ all_publications' =
                          Extend(all_publications, resp.json, query.local_unit_id)
                    /\ fexc' = ""
                    /\ fpc' = IF total_pages' <= 1 THEN "returned" ELSE "loop"
    /\ UNCHANGED <<query, page, sleeps>>

\* lines 123-141: one iteration of the while loop, up to the next test of its
\* condition; the request and the filtering are inside try / except
\* RequestException
NextPage(resp) ==
    /\ fpc = "loop"
    /\ page < total_pages
    /\ page' = page + 1
    /\ requests' = Append(requests, Params(page', Skip(page'), query))
    /\ responses' = Append(responses, resp)
    /\ IF resp.status = "error"
       THEN LaterFailure
       ELSE IF FilterRaises(resp.json)
       THEN \* KeyError is no RequestException: it leaves the call
            /\ fpc' = "raised"
            /\ fexc' = "KeyError"
            /\ UNCHANGED <<all_publications, sleeps>>
       ELSE /\ all_publications' =
                  Extend(all_publications, resp.json, query.local_unit_id)
            /\ sleeps' = time_sleep(sleeps, page', Len(requests'))
            /\ fexc' = ""
            /\ fpc' = IF page' < total_pages THEN "loop" ELSE "returned"
    /\ UNCHANGED <<query, total_pages>>

FetchFirst ==
    /\ \E resp \in {ErrorResponse} \cup {OkResponse(j) : j \in FirstJsons} : FirstPage(resp)
    /\ UNCHANGED <<gvars, evars>>

FetchNext ==
    /\ \E resp \in {ErrorResponse} \cup {OkResponse(j) : j \in LaterJsons(total_pages)} :
           NextPage(resp)
    /\ UNCHANGED <<gvars, evars>>

(***************************************************************************)
(* The co-authorship graph builder.                                        *)
(***************************************************************************)
\* the author fields of the input tables modelled: "A;B;C", "B;A",
\* " A ; ;B", "A;A" and "C"
AuthorFields ==
    { <<"A", ";", "B", ";", "C">>,
      <<"B", ";", "A">>,
      <<" ", "A", " ", ";", " ", ";", "B">>,
      <<"A", ";", "A">>,
      <<"C">> }
Titles == {"P", "Q"}
Years == {2020, 2021}
Departments == {"X", "Y"}

AllColumns == {"authors", "titleOfPublication", "yearOfPublication", "department"}

\* the rows of a table that has every column
FullRows ==
    [authors : AuthorFields, titleOfPublication : Titles,
     yearOfPublication : Years, department : Departments]

\* a row without the columns the table lacks
Restrict(row, columns) == [c \in columns |-> row[c]]

\* the tables pd.read_csv may hand over: every column present, or the author
\* column or the affiliation column missing; every cell holds a value
ColumnSets == {AllColumns, AllColumns \ {"authors"}, AllColumns \ {"department"}}
Tables ==
    { [columns |-> cols, rows |-> [i \in DOMAIN rows |-> Restrict(rows[i], cols)]] :
        cols \in ColumnSets,
        rows \in UNION {[1..n -> FullRows] : n \in 0..MaxRows} }

\* data.assign(authors=data['authors'].str.split(';')).explode('authors'), then
\* .str.strip() on the exploded column: one row per substring, in order
ExplodeRow(row, column) ==
    [k \in DOMAIN Split(row[column], ";") |->
        [authors |-> Strip(Split(row[column], ";")[k]),
         titleOfPublication |-> row.titleOfPublication,
         yearOfPublication |-> row.yearOfPublication]]

DataLong(rows, column) == Flatten([i \in DOMAIN rows |-> ExplodeRow(rows[i], column)])

\* data_long.merge(data_long, on=[title, year]): every ordered pair of rows
\* with equal keys
MergeRow(left, data_long) ==
    Flatten([j \in DOMAIN data_long |->
        IF /\ data_long[j].titleOfPublication = left.titleOfPublication
           /\ data_long[j].yearOfPublication = left.yearOfPublication
        THEN << [authors_x |-> left.authors, authors_y |-> data_long[j].authors,
                 titleOfPublication |-> left.titleOfPublication,
                 yearOfPublication |-> left.yearOfPublication] >>
        ELSE <<>>])

Merge(data_long) == Flatten([i \in DOMAIN data_long |-> MergeRow(data_long[i], data_long)])

\* edge_list[edge_list['authors_x'] != edge_list['authors_y']]
IsNotSelfPair(r) == r.authors_x # r.authors_y
DropSelfPairs(edge_list) == SelectSeq(edge_list, IsNotSelfPair)

\* .drop_duplicates(): the first occurrence of every row, in order
RECURSIVE DropDuplicatesFrom(_, _)
DropDuplicatesFrom(s, seen) ==
    IF s = <<>> THEN <<>>
    ELSE IF Head(s) \in seen THEN DropDuplicatesFrom(Tail(s), seen)
    ELSE <<Head(s)>> \o DropDuplicatesFrom(Tail(s), seen \cup {Head(s)})

DropDuplicates(s) == DropDuplicatesFrom(s, {})

\* .min(axis=1) and .max(axis=1) of two str columns
StrMin(a, b) == IF StrLess(b, a) THEN b ELSE a
StrMax(a, b) == IF StrLess(a, b) THEN b ELSE a

\* a faulty variant of Canonical: the pair is kept in the order the merge gave it
Canonical_Unordered(r) ==
    [source |-> r.authors_x,
     target |-> r.authors_y,
     publication |-> r.titleOfPublication,
     year |-> r.yearOfPublication]

\* source/target from min/max, and the columns renamed
Canonical(r) ==
    [source |-> StrMin(r.authors_x, r.authors_y),
     target |-> StrMax(r.authors_x, r.authors_y),
     publication |-> r.titleOfPublication,
     year |-> r.yearOfPublication]

Canonicalize(edge_list) == [i \in DOMAIN edge_list |-> Canonical(edge_list[i])]

\* the edge table both builders compute from the exploded table
EdgeList(data_long) ==
    DropDuplicates(Canonicalize(DropDuplicates(DropSelfPairs(Merge(data_long)))))

\* generate_edge_list: the table it writes
generate_edge_list(rows) == EdgeList(DataLong(rows, "authors"))

\* generate_node_list, lines 224-232: author_affiliations as the list of its
\* items in insertion order
AppendAffiliation(acc, author, department) ==
    IF \E i \in DOMAIN acc : acc[i].author = author
    THEN [i \in DOMAIN acc |->
            IF acc[i].author = author
            THEN [acc[i] EXCEPT !.departments = Append(@, department)]
            ELSE acc[i]]
    ELSE Append(acc, [author |-> author, departments |-> <<department>>])

RECURSIVE AccumulateAuthors(_, _, _)
AccumulateAuthors(acc, authors, department) ==
    IF authors = <<>> THEN acc
    ELSE AccumulateAuthors(
             IF Strip(Head(authors)) # <<>>
             THEN AppendAffiliation(acc, Strip(Head(authors)), department)
             ELSE acc,
             Tail(authors), department)

RECURSIVE AuthorAffiliations(_, _)
AuthorAffiliations(acc, rows) ==
    IF rows = <<>> THEN acc
    ELSE AuthorAffiliations(
             AccumulateAuthors(acc, Split(Head(rows).authors, ";"), Head(rows).department),
             Tail(rows))

\* Counter(departments).most_common(1)[0][0]: the count of each value, and the
\* first value, in order of first occurrence, whose count is the largest
Count(departments, d) == Cardinality({i \in DOMAIN departments : departments[i] = d})

MostCommon(departments) ==
    LET first == CHOOSE i \in DOMAIN departments :
                    /\ \A j \in DOMAIN departments :
                           Count(departments, departments[j]) <= Count(departments, departments[i])
                    /\ \A j \in 1..(i - 1) :
                           Count(departments, departments[j]) < Count(departments, departments[i])
    IN departments[first]

\* generate_node_list: the table it writes
generate_node_list(rows) ==
    LET items == AuthorAffiliations(<<>>, rows)
    IN [i \in DOMAIN items |->
           [id |-> items[i].author, label |-> items[i].author,
            department |-> MostCommon(items[i].departments)]]

GraphInit ==
    /\ gpc = "start"
    /\ table \in Tables
    /\ edge_file = NotWritten
    /\ node_file = NotWritten
    /\ gexc = ""

GraphIdle ==
    /\ gpc = "idle"
    /\ table = [columns |-> {}, rows |-> <<>>]
    /\ edge_file = NotWritten
    /\ node_file = NotWritten
    /\ gexc = ""

\* main, line 276: generate_edge_list; data['authors'] raises KeyError when the
\* column is missing, before anything is written
GenerateEdgeList ==
    /\ gpc = "start"
    /\ IF "authors" \notin table.columns
       THEN /\ gpc' = "failed"
            /\ gexc' = "KeyError"
            /\ UNCHANGED edge_file
       ELSE /\ edge_file' = Written(generate_edge_list(table.rows))
            /\ gpc' = "edges_done"
            /\ UNCHANGED gexc
    /\ UNCHANGED <<table, node_file>>
    /\ UNCHANGED <<fvars, evars>>

\* main, line 280: generate_node_list; lines 221-222 raise ValueError when the
\* author or the department column is missing
GenerateNodeList ==
    /\ gpc = "edges_done"
    /\ IF "authors" \notin table.columns \/ "department" \notin table.columns
       THEN /\ gpc' = "failed"
            /\ gexc' = "ValueError"
            /\ UNCHANGED node_file
       ELSE /\ node_file' = Written(generate_node_list(table.rows))
            /\ gpc' = "done"
            /\ UNCHANGED gexc
    /\ UNCHANGED <<table, edge_file>>
    /\ UNCHANGED <<fvars, evars>>


(***************************************************************************)
(* The enrichment path: process_publications_csv and create_edge_list.     *)
(***************************************************************************)
\* a missing value of a pandas column
NaN == <<"NaN">>

\* the rows of the input tables modelled (columns id, titleOfPublication,
\* yearOfPublication)
DfRows ==
    { [id |-> "p1", titleOfPublication |-> "P", yearOfPublication |-> 2020],
      [id |-> "p2", titleOfPublication |-> "Q", yearOfPublication |-> 2020],
      [id |-> "p3", titleOfPublication |-> "P", yearOfPublication |-> 2021] }

\* entries of data.authorsOfThePublication.localAuthors
AuthorA == [author |-> [id |-> <<"a1">>, firstName |-> <<"X">>, lastName |-> <<"A">>]]
AuthorB == [author |-> [id |-> <<"b2">>, firstName |-> <<"Y">>, lastName |-> <<"B">>]]
AuthorNoId == [author |-> [firstName |-> <<"X">>, lastName |-> <<"C">>]]

\* what fetch_publication_details may return: None on a RequestException
\* (lines 22-24), else the JSON body
None == [none |-> TRUE]
Details(local_authors) ==
    [id |-> "d", data |-> [authorsOfThePublication |-> [localAuthors |-> local_authors]]]
DetailResults ==
    { None,
      Details(<<AuthorA, AuthorB>>),
      Details(<<AuthorB, AuthorNoId, AuthorA>>),
      Details(<<AuthorNoId>>),
      [id |-> "d", data |-> EmptyDict],
      [id |-> "d"] }

IsNone(x) == "none" \in DOMAIN x

\* f"{lastName}, {firstName}".strip()
AuthorName(author_data) ==
    Strip(Get(author_data, "lastName", <<>>) \o <<",", " ">>
              \o Get(author_data, "firstName", <<>>))

AuthorInfo(author_entry) ==
    [author_id |-> Get(Get(author_entry, "author", EmptyDict), "id", <<>>),
     author_name |-> AuthorName(Get(author_entry, "author", EmptyDict))]

HasAuthorId(author_info) == author_info.author_id # <<>>

\* extract_author_info: the entries that have an author id, in order
extract_author_info(publication_data) ==
    IF IsNone(publication_data) \/ "data" \notin DOMAIN publication_data THEN <<>>
    ELSE LET authors ==
                 Get(Get(Get(publication_data, "data", EmptyDict),
                         "authorsOfThePublication", EmptyDict), "localAuthors", <<>>)
         IN SelectSeq([k \in DOMAIN authors |-> AuthorInfo(authors[k])], HasAuthorId)

\* df['id'].unique().tolist(): the distinct ids in order of first appearance
PublicationIds(rows) == DropDuplicates([k \in DOMAIN rows |-> rows[k].id])

\* df['id'].map(d): the dict's value, NaN for an id that is no key
MapIds(rows, names) ==
    [k \in DOMAIN rows |->
        [id |-> rows[k].id,
         titleOfPublication |-> rows[k].titleOfPublication,
         yearOfPublication |-> rows[k].yearOfPublication,
         local_authors |-> Get(names, rows[k].id, NaN)]]

\* create_edge_list, line 155: sorted() of the distinct exploded values
\* compares a float NaN with a str and raises TypeError when both occur
SortedRaises(rows) ==
    /\ \E k \in DOMAIN rows : rows[k].local_authors = NaN
    /\ \E k \in DOMAIN rows : rows[k].local_authors # NaN

\* create_edge_list: the table it writes (when line 155 does not raise, every
\* local_authors cell is a str)
create_edge_list(rows) == EdgeList(DataLong(rows, "local_authors"))

EnrichInit ==
    /\ epc = "loop"
    /\ df \in UNION {[1..n -> DfRows] : n \in 0..MaxDfRows}
    /\ idx = 0
    /\ detail_requests = <<>>
    /\ detail_results = <<>>
    /\ publication_authors = EmptyDict
    /\ publication_author_names = EmptyDict
    /\ updated_file = NotWritten
    /\ edge_list_file = NotWritten
    /\ eexc = ""

EnrichIdle ==
    /\ epc = "idle"
    /\ df = <<>>
    /\ idx = 0
    /\ detail_requests = <<>>
    /\ detail_results = <<>>
    /\ publication_authors = EmptyDict
    /\ publication_author_names = EmptyDict
    /\ updated_file = NotWritten
    /\ edge_list_file = NotWritten
    /\ eexc = ""

\* d[k] = v
SetItem(d, k, v) == [x \in DOMAIN d \cup {k} |-> IF x = k THEN v ELSE d[x]]

AuthorIdOf(author_info) == author_info.author_id
AuthorNameOf(author_info) == author_info.author_name
HasAuthorName(author_info) == author_info.author_name # <<>>

\* lines 91-118: one iteration of the loop over publication_ids (the pause
\* after every tenth request changes no state)
ProcessPublication(pub_details) ==
    /\ epc = "loop"
    /\ idx < Len(PublicationIds(df))
    /\ LET pub_id == PublicationIds(df)[idx + 1]
           authors == extract_author_info(pub_details)
           ids == SelectSeq(authors, HasAuthorId)
           names == SelectSeq(authors, HasAuthorName)
       IN /\ detail_requests' = Append(detail_requests, pub_id)
          /\ detail_results' = Append(detail_results, pub_details)
          /\ IF ~IsNone(pub_details) /\ pub_details # EmptyDict /\ authors # <<>>
             THEN /\ publication_authors' =
                        SetItem(publication_authors, pub_id,
                                Join([k \in DOMAIN ids |-> AuthorIdOf(ids[k])], ";"))
                  /\ publication_author_names' =
                        SetItem(publication_author_names, pub_id,
                                Join([k \in DOMAIN names |-> Strip(AuthorNameOf(names[k]))], ";"))
             ELSE UNCHANGED <<publication_authors, publication_author_names>>
    /\ idx' = idx + 1
    /\ UNCHANGED <<epc, df, updated_file, edge_list_file, eexc>>

EnrichFetch ==
    /\ \E pub_details \in DetailResults : ProcessPublication(pub_details)
    /\ UNCHANGED <<fvars, gvars>>

\* lines 120-138 and create_edge_list: after the loop
EnrichFinish ==
    /\ epc = "loop"
    /\ idx = Len(PublicationIds(df))
    /\ IF DOMAIN publication_authors # {}
       THEN /\ updated_file' = Written(MapIds(df, publication_author_names))
            /\ IF SortedRaises(MapIds(df, publication_author_names))
               THEN /\ epc' = "failed"
                    /\ eexc' = "TypeError"
                    /\ UNCHANGED edge_list_file
               ELSE /\ edge_list_file' =
                          Written(create_edge_list(MapIds(df, publication_author_names)))
                    /\ epc' = "done"
                    /\ UNCHANGED eexc
       ELSE \* "No author information found": nothing is written
            /\ epc' = "done"
            /\ UNCHANGED <<updated_file, edge_list_file, eexc>>
    /\ UNCHANGED <<df, idx, detail_requests, detail_results, publication_authors,
                   publication_author_names>>
    /\ UNCHANGED <<fvars, gvars>>

(***************************************************************************)
(* The specifications: one per program, and their union.                   *)
(***************************************************************************)
FetchActions == FetchFirst \/ FetchNext
GraphActions == GenerateEdgeList \/ GenerateNodeList
EnrichActions == EnrichFetch \/ EnrichFinish

InitFetch == FetchInit /\ GraphIdle /\ EnrichIdle
InitGraph == FetchIdle /\ GraphInit /\ EnrichIdle
InitEnrich == FetchIdle /\ GraphIdle /\ EnrichInit

SpecFetch == InitFetch /\ [][FetchActions]_vars
SpecGraph == InitGraph /\ [][GraphActions]_vars
SpecEnrich == InitEnrich /\ [][EnrichActions]_vars

Init == InitFetch \/ InitGraph \/ InitEnrich

Next == FetchActions \/ GraphActions \/ EnrichActions

Spec == Init /\ [][Next]_vars

(***************************************************************************)
(* Properties of the paginated fetcher, checked under SpecFetch.           *)
(***************************************************************************)
Finished == fpc \in {"returned", "raised"}

\* meta.pageCount as the first response reports it
ReportedPageCount == Get(Get(responses[1].json, "meta", EmptyDict), "pageCount", 0)

FirstOk == Len(responses) >= 1 /\ responses[1].status = "ok"

NoRequestFailed == \A i \in DOMAIN responses : responses[i].status = "ok"

\* page i failed: its request failed, or filtering its records raised
PageFailed(i) ==
    \/ responses[i].status = "error"
    \/ responses[i].status = "ok" /\ FilterRaises(responses[i].json)

NoPageFailed == \A i \in DOMAIN responses : ~PageFailed(i)

\* the normalized records of pages 1..n, page after page, in server order
PagesRecords(n) ==
    Flatten([i \in 1..n |-> FilterAll(responses[i].json, query.local_unit_id)])

\* C1: when the request for a page k > 1 fails after pages 1..k-1 succeeded,
\* the call returns normally with exactly the normalized records of pages
\* 1..k-1 in server order, and no request for a later page is ever issued.
C1_PartialResultOnLaterFailure ==
    \A k \in 2..Len(responses) :
        responses[k].status = "error" =>
            /\ ReportedPageCount > 1
            /\ k <= ReportedPageCount
            /\ fpc = "returned"
            /\ fexc = ""
            /\ all_publications = PagesRecords(k - 1)
            /\ Len(requests) = k

\* page 3 of 3 failed after two pages with records
C1_Witness ==
    /\ Len(responses) = 3
    /\ responses[3].status = "error"
    /\ fpc = "returned"
    /\ Len(all_publications) = 4

\* C2: when the first response reports pageCount = 1, exactly one request is
\* issued over the whole call, and the sequence the call returns is exactly
\* the normalized records of that page in the order the server sent them,
\* whatever the year range and the unit id (the empty id included).
C2_SinglePage ==
    (FirstOk /\ ReportedPageCount = 1) =>
        /\ Finished
        /\ Len(requests) = 1
        /\ requests[1].page = 1
        /\ requests[1].localUnitIds = query.local_unit_id
        /\ fpc = "returned" =>
               /\ Len(all_publications) = Len(Get(responses[1].json, "data", <<>>))
               /\ all_publications = PagesRecords(1)

\* one page of two records fetched for the empty unit id
C2_Witness ==
    /\ FirstOk
    /\ ReportedPageCount = 1
    /\ fpc = "returned"
    /\ query.local_unit_id = ""
    /\ Len(all_publications) = 2
    /\ all_publications[1].titleOfPublication # all_publications[2].titleOfPublication

\* C3: a network or status failure of the first request is propagated to the
\* caller: the call raises, returns no record sequence, and requests no
\* further page.
C3_FirstPageFailurePropagates ==
    (Len(responses) >= 1 /\ responses[1].status = "error") =>
        /\ fpc = "raised"
        /\ fexc = "RequestException"
        /\ all_publications = <<>>
        /\ Len(requests) = 1

C3_Witness ==
    /\ Len(responses) = 1
    /\ responses[1].status = "error"
    /\ fpc = "raised"

\* C9: the normalizer never raises for a raw publication object with missing
\* fields, so no record of a successfully fetched page turns the fetch into
\* an error or loses the records collected so far.
C9_NeverRaisesOnMissingFields ==
    /\ \A i \in DOMAIN responses :
           responses[i].status = "ok" => ~FilterRaises(responses[i].json)
    /\ fpc = "raised" => responses[1].status = "error"
    /\ (Finished /\ NoRequestFailed) =>
           Len(all_publications) =
               Len(Flatten([i \in DOMAIN responses |-> Get(responses[i].json, "data", <<>>)]))

\* What does hold of the normalizer: a record that has its "data" object is
\* recorded with {} for every absent title, authors, publication information
\* or year, and only a record without "data" makes the call raise KeyError.
NestedFieldsDefault ==
    /\ fexc = "KeyError" => FilterRaises(responses[Len(responses)].json)
    /\ \A i \in DOMAIN all_publications :
           /\ all_publications[i].titleOfPublication \in
                  {EmptyDict, [titleOfPublication |-> "T1"], [titleOfPublication |-> "T2"]}
           /\ all_publications[i].yearOfPublication \in
                  {EmptyDict, [yearOfPublication |-> "2020"], [yearOfPublication |-> "2021"]}
    /\ (fpc = "returned" /\ NoRequestFailed) => all_publications = PagesRecords(Len(responses))

\* C10: the pages after the first are requested one at a time in the order
\* 2, 3, ..., N, each at most once and none above N; the request for page p
\* carries skip = (p-1) * 100 and limit = 100; and when no page fails (neither
\* its request nor the filtering of its records raises), exactly N requests
\* are issued and the call returns the records of pages 1..N concatenated in
\* that order.
C10_PagesInOrder ==
    /\ \A i \in DOMAIN requests :
           /\ requests[i].page = i
           /\ requests[i].skip = (i - 1) * 100
           /\ requests[i].limit = 100
    /\ (FirstOk /\ ReportedPageCount > 1) => Len(requests) <= ReportedPageCount
    /\ (FirstOk /\ ReportedPageCount > 1 /\ Finished /\ NoPageFailed) =>
           /\ Len(requests) = ReportedPageCount
           /\ fpc = "returned"
           /\ all_publications = PagesRecords(ReportedPageCount)

\* three pages fetched, none failed
C10_Witness ==
    /\ FirstOk
    /\ ReportedPageCount = 3
    /\ fpc = "returned"
    /\ NoRequestFailed
    /\ Len(requests) = 3
    /\ requests[3].skip = 200
    /\ Len(all_publications) >= 5

\* the delays that ran after the request for page p and before any later one
DelaysAfter(p) == {i \in DOMAIN sleeps : sleeps[i].page = p /\ sleeps[i].after = p}

\* C11: the fixed pacing delay of 1 second runs exactly once after every page
\* p > 1 that was fetched successfully, and before any later request: whenever
\* the request for page p + 1 (p >= 2) has been issued, exactly one delay ran
\* between the request for page p and it; no delay follows page 1, no delay
\* follows a failed page, and there is no other delay.
C11_PacingDelay ==
    /\ \A i \in DOMAIN sleeps :
           /\ sleeps[i].seconds = 1
           /\ sleeps[i].page \in 2..Len(requests)
           /\ sleeps[i].after = sleeps[i].page
           /\ ~PageFailed(sleeps[i].page)
           /\ \A j \in DOMAIN sleeps : sleeps[j].page = sleeps[i].page => j = i
    /\ \A p \in DOMAIN responses :
           /\ (p >= 2 /\ ~PageFailed(p)) => Cardinality(DelaysAfter(p)) = 1
           /\ (p >= 2 /\ p + 1 \in DOMAIN requests) => Cardinality(DelaysAfter(p)) = 1
           /\ (p = 1 \/ PageFailed(p)) => DelaysAfter(p) = {}
    /\ \A i \in 1..(Len(sleeps) - 1) : sleeps[i].page < sleeps[i + 1].page

\* page 2 of 3 was fetched and followed by the one delay, page 3 failed and
\* was followed by none
C11_Witness ==
    /\ FirstOk
    /\ Len(responses) = 3
    /\ ~PageFailed(2)
    /\ responses[3].status = "error"
    /\ fpc = "returned"
    /\ Len(sleeps) = 1
    /\ sleeps[1].page = 2

(***************************************************************************)
(* Properties of the graph builder, checked under SpecGraph.               *)
(***************************************************************************)
\* the trimmed substrings of an author field
NamesOf(field) == {Strip(x) : x \in Range(Split(field, ";"))}

\* the names listed under title P and year Y, over all rows of the table
NamesUnder(rows, P, Y) ==
    UNION { NamesOf(rows[i].authors) :
              i \in {j \in DOMAIN rows : /\ rows[j].titleOfPublication = P
                                         /\ rows[j].yearOfPublication = Y} }

\* one row (min, max, P, Y) per unordered pair of distinct names under (P, Y)
ExpectedEdges(rows) ==
    UNION { { [source |-> pr[1], target |-> pr[2],
               publication |-> rows[i].titleOfPublication,
               year |-> rows[i].yearOfPublication] :
                 pr \in { q \in NamesUnder(rows, rows[i].titleOfPublication,
                                           rows[i].yearOfPublication)
                               \X NamesUnder(rows, rows[i].titleOfPublication,
                                             rows[i].yearOfPublication) :
                            StrLess(q[1], q[2]) } } :
            i \in DOMAIN rows }

C5_NoBlankAuthors ==
    /\ edge_file.written =>
           \A i \in DOMAIN edge_file.rows :
               edge_file.rows[i].source # <<>> /\ edge_file.rows[i].target # <<>>
    /\ node_file.written =>
           \A i \in DOMAIN node_file.rows : node_file.rows[i].id # <<>>
    /\ (/\ Len(table.rows) = 1
        /\ "authors" \in table.columns
        /\ table.rows[1].authors = <<" ", "A", " ", ";", " ", ";", "B">>) =>
           /\ edge_file.written => Len(edge_file.rows) = 1
           /\ node_file.written => Len(node_file.rows) = 2

\* What does hold of blank substrings: the node list never has one.
NoBlankNode ==
    node_file.written => \A i \in DOMAIN node_file.rows : node_file.rows[i].id # <<>>

\* C6: when the input table lacks the author or the affiliation column, the
\* run ends with an error and has written neither the edge list nor the node
\* list.
C6_NoOutputOnMissingColumn ==
    (gpc # "idle" /\ ("authors" \notin table.columns \/ "department" \notin table.columns)) =>
        /\ ~edge_file.written
        /\ ~node_file.written
        /\ gpc # "done"

\* the rows an author name appears on
RowsOf(rows, a) == {i \in DOMAIN rows : a \in NamesOf(rows[i].authors)}

\* how many of the author's rows carry department d
RowCount(rows, a, d) == Cardinality({i \in RowsOf(rows, a) : rows[i].department = d})

\* the department on most of the author's rows, the earliest in row order
\* among those with the largest count
ExpectedAffiliation(rows, a) ==
    LET first == CHOOSE i \in RowsOf(rows, a) :
                    /\ \A j \in RowsOf(rows, a) :
                           RowCount(rows, a, rows[j].department)
                               <= RowCount(rows, a, rows[i].department)
                    /\ \A j \in RowsOf(rows, a) :
                           j < i => RowCount(rows, a, rows[j].department)
                                        < RowCount(rows, a, rows[i].department)
    IN rows[first].department

AllNames(rows) == UNION {NamesOf(rows[i].authors) : i \in DOMAIN rows} \ {<<>>}

\* C7: the node list has exactly one node per distinct trimmed non-empty
\* author name, and its affiliation is the value on most of the rows the
\* author appears on, counted once per row, the earliest-occurring value
\* winning a tie.
C7_NodeAffiliation ==
    node_file.written =>
        /\ {node_file.rows[i].id : i \in DOMAIN node_file.rows} = AllNames(table.rows)
        /\ Cardinality(AllNames(table.rows)) = Len(node_file.rows)
        /\ \A i \in DOMAIN node_file.rows :
               node_file.rows[i].department =
                   ExpectedAffiliation(table.rows, node_file.rows[i].id)

\* What does hold of the nodes: one per distinct non-empty name.
OneNodePerName ==
    node_file.written =>
        /\ {node_file.rows[i].id : i \in DOMAIN node_file.rows} = AllNames(table.rows)
        /\ Cardinality(AllNames(table.rows)) = Len(node_file.rows)

(***************************************************************************)
(* Properties of the enrichment path, checked under SpecEnrich.            *)
(***************************************************************************)
EnrichFinished == epc \in {"done", "failed"}

\* the requests whose detail fetch yielded at least one author with an id
YieldedAuthors(i) == extract_author_info(detail_results[i]) # <<>>

\* C8: a detail fetch that returns None never aborts the batch: every id is
\* still requested in order, the failed publication contributes no author
\* to the edge list, and the run completes by writing the updated table and
\* the edge list whenever another publication yielded authors.
C8_FailureNeverAborts ==
    /\ EnrichFinished => detail_requests = PublicationIds(df)
    /\ (/\ EnrichFinished
        /\ \E i \in DOMAIN detail_results : IsNone(detail_results[i])
        /\ \E i \in DOMAIN detail_results : YieldedAuthors(i)) =>
           /\ epc = "done"
           /\ eexc = ""
           /\ updated_file.written
           /\ edge_list_file.written
    /\ edge_list_file.written =>
           \A i \in DOMAIN edge_list_file.rows :
               /\ edge_list_file.rows[i].source \notin {NaN, <<>>}
               /\ edge_list_file.rows[i].target \notin {NaN, <<>>}

\* What does hold of the batch: every id is requested, in order.
EveryIdRequested ==
    /\ detail_requests = SubSeq(PublicationIds(df), 1, Len(detail_requests))
    /\ EnrichFinished => detail_requests = PublicationIds(df)

====
